---------------------------- MODULE Spec2Model ----------------------------
(***************************************************************************)
(* Model of scripts/attestation_server.py: the six evidence collectors    *)
(* (pure functions of the outcome of the one child process each of them    *)
(* runs) and the request handler AttestationHandler.do_GET /               *)
(* handle_attestation, which runs them in sequence and sends the response. *)
(*                                                                         *)
(* A text (a Python str) is a sequence of symbols.  A symbol is one        *)
(* character, written as a one-character string.  Text whose characters no *)
(* code path inspects (the str(e) of an exception, a default such as       *)
(* 'NVIDIA-GPU') is written as a sequence of longer chunks.                *)
(***************************************************************************)
EXTENDS Integers, Sequences, FiniteSets, TLC

VARIABLES
    pc,          \* position of the handler thread inside do_GET / handle_attestation
    path,        \* self.path of the request being served
    proc,        \* the child process the handler waits for (subprocess.check_output)
    calls,       \* collectors whose child was spawned while serving the current request
    platform,    \* local `platform` of handle_attestation
    tee_dmesg,   \* local `tee_dmesg` of handle_attestation
    response,    \* local `response` of handle_attestation (a dict under construction)
    gpu_status,  \* local `gpu_status` of handle_attestation
    status,      \* status code sent for the last request (0: nothing was sent yet)
    body,        \* JSON object written for the last request
    aborted,     \* an exception left the handler: the request got no response
    environ,     \* os.environ['VM_SIZE'] of the server process
    installed,   \* the executables found on the host's PATH
    fn,          \* collector applied on its own (CollectorSpec)
    arg,         \* outcome of that collector's child process
    ret          \* what the collector returned

vars == <<pc, path, proc, calls, platform, tee_dmesg, response, gpu_status,
          status, body, aborted, environ, installed, fn, arg, ret>>

handlerVars == <<pc, path, proc, calls, platform, tee_dmesg, response, gpu_status,
                 status, body, aborted, environ, installed>>

unitVars == <<fn, arg, ret>>

(***************************************************************************)
(* Bounds of the model.                                                    *)
(***************************************************************************)
\* most lines in a generated tool output
MaxLines == 2

(***************************************************************************)
(* Python str primitives.                                                  *)
(***************************************************************************)
UpperCase == <<"A", "B", "C", "D", "E", "F", "G", "H", "I", "J", "K", "L", "M",
               "N", "O", "P", "Q", "R", "S", "T", "U", "V", "W", "X", "Y", "Z">>
LowerCase == <<"a", "b", "c", "d", "e", "f", "g", "h", "i", "j", "k", "l", "m",
               "n", "o", "p", "q", "r", "s", "t", "u", "v", "w", "x", "y", "z">>

\* str.lower() on one character
LowerChar(c) ==
    IF \E i \in 1..Len(UpperCase) : UpperCase[i] = c
    THEN LowerCase[CHOOSE i \in 1..Len(UpperCase) : UpperCase[i] = c]
    ELSE c

\* s.lower()
Lower(s) == [i \in 1..Len(s) |-> LowerChar(s[i])]

\* needle in hay
Contains(needle, hay) ==
    \E i \in 0..(Len(hay) - Len(needle)) :
        SubSeq(hay, i + 1, i + Len(needle)) = needle

\* index of the first occurrence of character c in s (0: none)
Find(s, c) ==
    IF \E i \in 1..Len(s) : s[i] = c
    THEN CHOOSE i \in 1..Len(s) : s[i] = c /\ \A j \in 1..(i - 1) : s[j] # c
    ELSE 0

\* s.split(c) for a one-character separator: never empty
RECURSIVE Split(_, _)
Split(s, c) ==
    IF Find(s, c) = 0
    THEN <<s>>
    ELSE <<SubSeq(s, 1, Find(s, c) - 1)>> \o Split(SubSeq(s, Find(s, c) + 1, Len(s)), c)

Whitespace == {" ", "\t", "\n", "\r"}

RECURSIVE LStrip(_)
LStrip(s) == IF s # <<>> /\ Head(s) \in Whitespace THEN LStrip(Tail(s)) ELSE s

RECURSIVE RStrip(_)
RStrip(s) ==
    IF s # <<>> /\ s[Len(s)] \in Whitespace THEN RStrip(SubSeq(s, 1, Len(s) - 1)) ELSE s

\* s.strip()
Strip(s) == RStrip(LStrip(s))

\* s[:n]
Prefix(s, n) == SubSeq(s, 1, IF Len(s) < n THEN Len(s) ELSE n)

\* the lines of a tool's output, each ended by a newline
RECURSIVE JoinLines(_)
JoinLines(ls) == IF ls = <<>> THEN <<>> ELSE Head(ls) \o <<"\n">> \o JoinLines(Tail(ls))

(***************************************************************************)
(* String literals of the source.                                          *)
(***************************************************************************)
Lit_Intel_TDX == <<"I", "n", "t", "e", "l", " ", "T", "D", "X">>
Lit_tdx == <<"t", "d", "x">>
Lit_SEV_SNP == <<"S", "E", "V", "-", "S", "N", "P">>
Lit_sev == <<"s", "e", "v">>
Lit_Memory_Encryption == <<"M", "e", "m", "o", "r", "y", " ",
                           "E", "n", "c", "r", "y", "p", "t", "i", "o", "n">>
Lit_memory_encryption == <<"m", "e", "m", "o", "r", "y", " ",
                           "e", "n", "c", "r", "y", "p", "t", "i", "o", "n">>
Lit_confidential == <<"c", "o", "n", "f", "i", "d", "e", "n", "t", "i", "a", "l">>
Lit_encrypted == <<"e", "n", "c", "r", "y", "p", "t", "e", "d">>
Lit_Confidential_Computing == <<"C", "o", "n", "f", "i", "d", "e", "n", "t", "i", "a", "l", " ",
                                "C", "o", "m", "p", "u", "t", "i", "n", "g">>
Lit_Product_Name == <<"P", "r", "o", "d", "u", "c", "t", " ", "N", "a", "m", "e">>
Lit_error == <<"e", "r", "r", "o", "r">>
Lit_0x == <<"0", "x">>
Lit_colon == <<":">>
Lit_ellipsis == <<".", ".", ".">>
Lit_Unknown == <<"Unknown">>
Lit_unknown == <<"unknown">>
Lit_NVIDIA_GPU == <<"NVIDIA-GPU">>
Lit_Error_reading_dmesg == <<"Error reading dmesg: ">>
Lit_tpm2_tools_not_installed == <<"tpm2-tools not installed">>
Lit_TPM_read_timeout == <<"TPM read timeout">>


(***************************************************************************)
(* Program constants.                                                      *)
(***************************************************************************)
PlatformTimeout == 5
DmesgLinesTimeout == 5
DmesgLimit == 10
AzureTimeout == 10
SignatureLimit == 200
TpmTimeout == 5
GpuTimeout == 10
VmSizeTimeout == 5
StatusOK == 200
StatusNotFound == 404

(***************************************************************************)
(* subprocess.check_output(cmd, stderr=DEVNULL, timeout=t).decode()        *)
(*                                                                         *)
(* Its outcome is a record [kind, out]:                                    *)
(*   "ok"           the child exited with status 0; out is its stdout      *)
(*   "missing"      FileNotFoundError: no such executable                  *)
(*   "timeout"      TimeoutExpired: the child was killed at the timeout    *)
(*   "failed"       CalledProcessError: non-zero exit status               *)
(*   "undecodable"  UnicodeDecodeError: stdout is not UTF-8                *)
(***************************************************************************)
Collectors == {"get_tee_platform", "get_tee_dmesg_lines", "get_vm_size",
               "get_azure_attestation", "get_tpm_pcr_values", "get_gpu_tee_status"}

\* argv[0] of the child each collector runs
CommandOf(c) ==
    CASE c = "get_tee_platform" -> "dmesg"
      [] c = "get_tee_dmesg_lines" -> "dmesg"
      [] c = "get_vm_size" -> "curl"
      [] c = "get_azure_attestation" -> "curl"
      [] c = "get_tpm_pcr_values" -> "tpm2_pcrread"
      [] c = "get_gpu_tee_status" -> "nvidia-smi"

\* a faulty variant: the VM-size fetch is left without a timeout (timeout=None)
TimeoutOf_vm_size_unbounded(c) ==
    CASE c = "get_tee_platform" -> PlatformTimeout
      [] c = "get_tee_dmesg_lines" -> DmesgLinesTimeout
      [] c = "get_vm_size" -> 0
      [] c = "get_azure_attestation" -> AzureTimeout
      [] c = "get_tpm_pcr_values" -> TpmTimeout
      [] c = "get_gpu_tee_status" -> GpuTimeout

\* the timeout= argument of each collector's check_output call, in seconds
TimeoutOf(c) ==
    CASE c = "get_tee_platform" -> PlatformTimeout
      [] c = "get_tee_dmesg_lines" -> DmesgLinesTimeout
      [] c = "get_vm_size" -> VmSizeTimeout
      [] c = "get_azure_attestation" -> AzureTimeout
      [] c = "get_tpm_pcr_values" -> TpmTimeout
      [] c = "get_gpu_tee_status" -> GpuTimeout

Ok(out) == [kind |-> "ok", out |-> out]
Failure(kind) == [kind |-> kind, out |-> <<>>]
FailureKinds == {"missing", "timeout", "failed", "undecodable"}

\* the exception class check_output(...).decode() raises for an outcome
ExceptionOf(o) ==
    CASE o.kind = "missing" -> "FileNotFoundError"
      [] o.kind = "timeout" -> "TimeoutExpired"
      [] o.kind = "failed" -> "CalledProcessError"
      [] o.kind = "undecodable" -> "UnicodeDecodeError"
      [] OTHER -> "none"

\* str(e) of that exception, for collector c
StrE(c, o) ==
    CASE o.kind = "missing" -> <<"[Errno 2] No such file or directory: ", CommandOf(c)>>
      [] o.kind = "timeout" -> <<"Command ", CommandOf(c), " timed out after ",
                                 ToString(TimeoutOf(c)), " seconds">>
      [] o.kind = "failed" -> <<"Command ", CommandOf(c), " returned non-zero exit status 1.">>
      [] o.kind = "undecodable" -> <<"'utf-8' codec can't decode byte">>
      [] OTHER -> <<>>

\* what a function call gives its caller: a value, or an exception passing through
Return(v) == [exc |-> "none", val |-> v]
Raise(e) == [exc |-> e, val |-> <<>>]

\* a Python dict is a function; d[k] = v
EmptyDict == <<>>
Put(d, k, v) == (k :> v) @@ d

(***************************************************************************)
(* get_tee_platform                                                        *)
(***************************************************************************)
get_tee_platform(o) ==
    IF o.kind # "ok"
    THEN Return("Unknown")
    ELSE IF Contains(Lit_Intel_TDX, o.out) \/ Contains(Lit_tdx, Lower(o.out))
         THEN Return("Intel-TDX")
    ELSE IF Contains(Lit_SEV_SNP, o.out) \/ Contains(Lit_sev, Lower(o.out))
         THEN Return("AMD-SEV-SNP")
    ELSE IF Contains(Lit_Memory_Encryption, o.out)
         THEN Return("AMD-SEV-SNP")
    ELSE Return("Unknown")

(***************************************************************************)
(* get_tee_dmesg_lines                                                     *)
(***************************************************************************)
tee_keywords == <<Lit_tdx, Lit_sev, Lit_memory_encryption, Lit_confidential, Lit_encrypted>>

\* any(kw in line_lower for kw in tee_keywords)
IsTeeLine(line) ==
    \E i \in 1..Len(tee_keywords) : Contains(tee_keywords[i], Lower(line))

\* the loop over lines: the matching lines, stripped, in order
RECURSIVE TeeLines(_)
TeeLines(lines) ==
    IF lines = <<>> THEN <<>>
    ELSE (IF IsTeeLine(Head(lines)) THEN <<Strip(Head(lines))>> ELSE <<>>)
         \o TeeLines(Tail(lines))

get_tee_dmesg_lines(o) ==
    IF o.kind # "ok"
    THEN Return(<<Lit_Error_reading_dmesg \o StrE("get_tee_dmesg_lines", o)>>)
    ELSE Return(Prefix(TeeLines(Split(o.out, "\n")), DmesgLimit))

(***************************************************************************)
(* get_vm_size: env is os.environ's VM_SIZE, [set, value]                  *)
(***************************************************************************)
get_vm_size(o, env) ==
    IF o.kind # "ok"
    THEN Return(IF env.set THEN env.value ELSE Lit_Unknown)
    ELSE Return(Strip(o.out))

(***************************************************************************)
(* get_azure_attestation.  The stdout of curl is given by what json.loads  *)
(* makes of it, a record [json, has_encoding, encoding, has_signature,     *)
(* signature_is_str, signature]:                                           *)
(*   json = "invalid"  json.loads raises JSONDecodeError                   *)
(*   json = "array"    a JSON value that is no object: .get raises         *)
(*   json = "object"   a JSON object with or without the two members; a    *)
(*                     signature that is no string (a number, null) makes  *)
(*                     len() raise TypeError                               *)
(***************************************************************************)
get_azure_attestation(o) ==
    IF o.kind # "ok"
    THEN Return(Put(EmptyDict, "error", StrE("get_azure_attestation", o)))
    ELSE IF o.out.json = "invalid"
         THEN Return(Put(EmptyDict, "error", <<"Expecting value: line 1 column 1 (char 0)">>))
    ELSE IF o.out.json = "array"
         THEN Return(Put(EmptyDict, "error", <<"'list' object has no attribute 'get'">>))
    ELSE IF o.out.has_signature /\ ~o.out.signature_is_str
         THEN Return(Put(EmptyDict, "error", <<"object of type 'int' has no len()">>))
    ELSE LET encoding == IF o.out.has_encoding THEN o.out.encoding ELSE Lit_unknown
             signature == IF o.out.has_signature THEN o.out.signature ELSE <<>>
         IN  Return(Put(Put(EmptyDict, "encoding", encoding), "signature",
                        IF Len(signature) > SignatureLimit
                        THEN Prefix(signature, SignatureLimit) \o Lit_ellipsis
                        ELSE signature))

(***************************************************************************)
(* get_tpm_pcr_values                                                      *)
(***************************************************************************)
\* the loop over the lines of tpm2_pcrread's output, from pcr_values = acc
RECURSIVE ParsePcr(_, _)
ParsePcr(lines, acc) ==
    IF lines = <<>> THEN acc
    ELSE LET line == Head(lines)
             parts == Split(Strip(line), ":")
         IN  IF Contains(Lit_colon, line) /\ Contains(Lit_0x, line) /\ Len(parts) >= 2
             THEN ParsePcr(Tail(lines), Put(acc, Strip(parts[1]), Strip(parts[2])))
             ELSE ParsePcr(Tail(lines), acc)

\* the try block: the exception that ends it ("none": it ran to its end)
\* and pcr_values as it is at that point
tpm_try(o) ==
    IF o.kind # "ok"
    THEN [exc |-> ExceptionOf(o), val |-> EmptyDict]
    ELSE [exc |-> "none", val |-> ParsePcr(Split(o.out, "\n"), EmptyDict)]

get_tpm_pcr_values(o) ==
    LET t == tpm_try(o)
    IN  CASE t.exc = "none" -> Return(t.val)
          [] t.exc = "FileNotFoundError" ->
                 Return(Put(t.val, Lit_error, Lit_tpm2_tools_not_installed))
          [] t.exc = "TimeoutExpired" ->
                 Return(Put(t.val, Lit_error, Lit_TPM_read_timeout))
          [] OTHER -> Return(Put(t.val, Lit_error, StrE("get_tpm_pcr_values", o)))

(***************************************************************************)
(* get_gpu_tee_status                                                      *)
(***************************************************************************)
gpu_result0 ==
    [gpu_detected |-> FALSE, gpu_tee_verified |-> FALSE, nvidia_cc_mode |-> "unknown"]

\* the lines of nvidia-smi's output that contain 'Product Name'
ProductLines(out) == SelectSeq(Split(out, "\n"), LAMBDA l : Contains(Lit_Product_Name, l))

\* the try block: the exception that ends it, its str(e), and result at that point
gpu_try(o) ==
    IF o.kind # "ok"
    THEN [exc |-> ExceptionOf(o), msg |-> StrE("get_gpu_tee_status", o), val |-> gpu_result0]
    ELSE LET r1 == IF Contains(Lit_Confidential_Computing, o.out)
                   THEN [gpu_detected |-> TRUE, gpu_tee_verified |-> TRUE,
                         nvidia_cc_mode |-> "on"]
                   ELSE [gpu_detected |-> TRUE, gpu_tee_verified |-> FALSE,
                         nvidia_cc_mode |-> "off"]
             found == ProductLines(o.out)
         IN  IF found = <<>>
             THEN [exc |-> "none", msg |-> <<>>, val |-> r1]
             ELSE IF Len(Split(found[1], ":")) < 2
                  THEN [exc |-> "IndexError", msg |-> <<"list index out of range">>, val |-> r1]
                  ELSE [exc |-> "none", msg |-> <<>>,
                        val |-> Put(r1, "gpu_model", Strip(Split(found[1], ":")[2]))]

\* a faulty variant: the `except Exception` clause is missing
get_gpu_tee_status_no_except(o) ==
    LET t == gpu_try(o)
    IN  CASE t.exc = "none" -> Return(t.val)
          [] t.exc = "FileNotFoundError" -> Return(t.val)
          [] OTHER -> Raise(t.exc)

get_gpu_tee_status(o) ==
    LET t == gpu_try(o)
    IN  CASE t.exc = "none" -> Return(t.val)
          [] t.exc = "FileNotFoundError" -> Return(t.val)
          [] OTHER -> Return(Put(t.val, "error", t.msg))

(***************************************************************************)
(* The tool outputs the collectors are given.                              *)
(***************************************************************************)
\* every output of at most MaxLines lines, each line one of `lines`
Texts(lines) == {JoinLines(ls) : ls \in UNION {[1..n -> lines] : n \in 0..MaxLines}}

\* n times the character "s"
Repeat(n) == [i \in 1..n |-> "s"]

Line_TDX == <<"T", "D", "X">>
Line_sev == <<" ", "s", "e", "v", " ">>
Line_Memory_Encryption == Lit_Memory_Encryption
Line_memory_encryption == Lit_memory_encryption
Line_boot == <<"b", "o", "o", "t">>
KernelLines == {Line_TDX, Line_sev, Line_Memory_Encryption, Line_memory_encryption, Line_boot}

\* a kernel log with more matching lines than get_tee_dmesg_lines keeps
LongLog == JoinLines([i \in 1..(DmesgLimit + 1) |-> IF i = 1 THEN Line_TDX ELSE Line_sev])

Line_pcr0 == <<"0", ":", " ", "0", "x", "A">>
Line_pcr1 == <<" ", "1", " ", ":", " ", "0", "x", "B", " ">>
Line_bank == <<"s", "h", "a", "2", "5", "6", ":">>
Line_two_colons == <<"2", ":", " ", "0", "x", "C", ":", "D">>
Line_error_label == <<"e", "r", "r", "o", "r", ":", " ", "0", "x", "1">>
TpmLines == {Line_pcr0, Line_pcr1, Line_bank, Line_two_colons, Line_error_label}

Line_product == <<"P", "r", "o", "d", "u", "c", "t", " ", "N", "a", "m", "e", " ", ":", " ",
                  "H", "1", "0", "0">>
Line_product_no_colon == Lit_Product_Name
Line_cc == Lit_Confidential_Computing
Line_driver == <<"D", "r", "i", "v", "e", "r">>
GpuLines == {Line_product, Line_product_no_colon, Line_cc, Line_driver}

VmSizeOutputs == {<<" ", "D", "C", "4", " ", "\n">>, <<>>}

Json(kind, has_encoding, has_signature, signature_is_str, signature) ==
    [json |-> kind, has_encoding |-> has_encoding, encoding |-> <<"pkcs7">>,
     has_signature |-> has_signature, signature_is_str |-> signature_is_str,
     signature |-> signature]

SignatureLengths == {0, SignatureLimit - 50, SignatureLimit, SignatureLimit + 1,
                     SignatureLimit + 50}

AzureDocuments ==
    {Json("invalid", FALSE, FALSE, FALSE, <<>>), Json("array", FALSE, FALSE, FALSE, <<>>)}
    \cup {Json("object", e, FALSE, FALSE, <<>>) : e \in BOOLEAN}
    \cup {Json("object", e, TRUE, FALSE, <<>>) : e \in BOOLEAN}
    \cup {Json("object", e, TRUE, TRUE, Repeat(n)) : e \in BOOLEAN, n \in SignatureLengths}

\* what a collector's child can print when it exits with status 0
Outputs(c) ==
    CASE c = "get_tee_platform" -> Texts(KernelLines) \cup {LongLog}
      [] c = "get_tee_dmesg_lines" -> Texts(KernelLines) \cup {LongLog}
      [] c = "get_vm_size" -> VmSizeOutputs
      [] c = "get_azure_attestation" -> AzureDocuments
      [] c = "get_tpm_pcr_values" -> Texts(TpmLines)
      [] c = "get_gpu_tee_status" -> Texts(GpuLines)

\* the outputs the children print in the runs of the request handler: every
\* generated output of nvidia-smi, and for the other tools one output for each
\* path through the collector
HostOutputs(c) ==
    CASE c = "get_tee_platform" ->
             {JoinLines(<<Line_TDX>>), JoinLines(<<Line_sev, Line_boot>>), <<>>}
      [] c = "get_tee_dmesg_lines" ->
             {JoinLines(<<Line_TDX>>), JoinLines(<<Line_sev, Line_boot>>), <<>>}
      [] c = "get_vm_size" -> {<<" ", "D", "C", "4", " ", "\n">>}
      [] c = "get_azure_attestation" ->
             {Json("invalid", FALSE, FALSE, FALSE, <<>>),
              Json("object", TRUE, TRUE, TRUE, Repeat(SignatureLimit + 50))}
      [] c = "get_tpm_pcr_values" ->
             {JoinLines(<<Line_bank, Line_pcr0>>), JoinLines(<<Line_error_label, Line_pcr1>>),
              JoinLines(<<Line_two_colons>>)}
      [] c = "get_gpu_tee_status" -> Texts(GpuLines)

VmSizeEnvs == {[set |-> FALSE, value |-> <<>>], [set |-> TRUE, value |-> <<"Standard_NC">>]}

\* the call of collector c on the outcome o of its child
Collect(c, o, env) ==
    CASE c = "get_tee_platform" -> get_tee_platform(o)
      [] c = "get_tee_dmesg_lines" -> get_tee_dmesg_lines(o)
      [] c = "get_vm_size" -> get_vm_size(o, env)
      [] c = "get_azure_attestation" -> get_azure_attestation(o)
      [] c = "get_tpm_pcr_values" -> get_tpm_pcr_values(o)
      [] c = "get_gpu_tee_status" -> get_gpu_tee_status(o)

(***************************************************************************)
(* AttestationHandler                                                      *)
(***************************************************************************)
AttestationPaths == {"/attestation", "/v1/attestation"}
Paths == AttestationPaths \cup {"/health", "/foo"}

NoProc == [collector |-> "none", timeout |-> 0]
Pending == [exc |-> "pending", val |-> <<>>]

\* datetime.now(timezone.utc): the instant, counted in the collector calls made before it
Now == Len(calls)

\* a faulty variant: only Intel-TDX counts as verified
tee_verified_tdx_only(p) == p = "Intel-TDX"

\* platform in ['Intel-TDX', 'AMD-SEV-SNP']
tee_verified(p) == p \in {"Intel-TDX", "AMD-SEV-SNP"}

\* a faulty variant: the timestamp is taken before the TPM is read
StageAfter_early_timestamp(stage) ==
    CASE stage = "get_tee_platform" -> "get_tee_dmesg_lines"
      [] stage = "get_tee_dmesg_lines" -> "get_vm_size"
      [] stage = "get_vm_size" -> "get_azure_attestation"
      [] stage = "get_azure_attestation" -> "timestamp"
      [] stage = "timestamp" -> "get_tpm_pcr_values"
      [] stage = "get_tpm_pcr_values" -> "get_gpu_tee_status"
      [] stage = "get_gpu_tee_status" -> "send"

\* the order in which handle_attestation evaluates its calls
StageAfter(stage) ==
    CASE stage = "get_tee_platform" -> "get_tee_dmesg_lines"
      [] stage = "get_tee_dmesg_lines" -> "get_vm_size"
      [] stage = "get_vm_size" -> "get_azure_attestation"
      [] stage = "get_azure_attestation" -> "get_tpm_pcr_values"
      [] stage = "get_tpm_pcr_values" -> "timestamp"
      [] stage = "timestamp" -> "get_gpu_tee_status"
      [] stage = "get_gpu_tee_status" -> "send"

\* a faulty variant: the model name is attached whatever gpu_detected says
WithGpuFields_always_gpu(resp, gpu) ==
    IF gpu.gpu_detected
    THEN Put(Put(Put(resp,
             "gpu", IF "gpu_model" \in DOMAIN gpu THEN gpu.gpu_model ELSE Lit_NVIDIA_GPU),
             "gpu_tee_verified", gpu.gpu_tee_verified),
             "nvidia_cc_mode", gpu.nvidia_cc_mode)
    ELSE Put(resp, "gpu", Lit_NVIDIA_GPU)

\* if gpu_status['gpu_detected']: response['gpu'] = ... (three keys)
WithGpuFields(resp, gpu) ==
    IF gpu.gpu_detected
    THEN Put(Put(Put(resp,
             "gpu", IF "gpu_model" \in DOMAIN gpu THEN gpu.gpu_model ELSE Lit_NVIDIA_GPU),
             "gpu_tee_verified", gpu.gpu_tee_verified),
             "nvidia_cc_mode", gpu.nvidia_cc_mode)
    ELSE resp

\* where the value a collector returned goes
Store(c, v) ==
    /\ platform' = IF c = "get_tee_platform" THEN v ELSE platform
    /\ tee_dmesg' = IF c = "get_tee_dmesg_lines" THEN v ELSE tee_dmesg
    /\ gpu_status' = IF c = "get_gpu_tee_status" THEN v ELSE gpu_status
    /\ response' =
          CASE c = "get_vm_size" ->
                   Put(Put(Put(EmptyDict, "platform", platform),
                           "tee_verified", tee_verified(platform)), "vm_size", v)
            [] c = "get_azure_attestation" -> Put(response, "azure_attestation", v)
            [] c = "get_tpm_pcr_values" -> Put(response, "tpm_pcr_sha256", v)
            [] OTHER -> response

\* collector c, whose check_output call had outcome o, returns to handle_attestation
Finish(c, o) ==
    LET r == Collect(c, o, environ)
    IN  IF r.exc = "none"
        THEN /\ Store(c, r.val)
             /\ pc' = StageAfter(c)
             /\ UNCHANGED aborted
        ELSE /\ pc' = "idle"
             /\ aborted' = TRUE
             /\ UNCHANGED <<platform, tee_dmesg, gpu_status, response>>

\* a GET request arrives and is routed; /health and unknown paths are answered at once
do_GET ==
    /\ pc = "idle"
    /\ \E p \in Paths :
          /\ path' = p
          /\ IF p \in AttestationPaths
             THEN /\ pc' = "get_tee_platform"
                  /\ status' = 0
                  /\ body' = EmptyDict
                  /\ calls' = <<>>
             ELSE IF p = "/health"
             THEN /\ pc' = "idle"
                  /\ status' = StatusOK
                  /\ body' = [status |-> "healthy", service |-> "attestation", timestamp |-> 0]
                  /\ calls' = <<"datetime.now">>
             ELSE /\ pc' = "idle"
                  /\ status' = StatusNotFound
                  /\ body' = [error |-> "Not found"]
                  /\ calls' = <<>>
    /\ aborted' = FALSE
    /\ platform' = "Unknown"
    /\ tee_dmesg' = <<>>
    /\ response' = EmptyDict
    /\ gpu_status' = gpu_result0
    /\ UNCHANGED <<proc, environ, installed, unitVars>>

\* the collector at pc starts its child process and waits for it
Spawn ==
    /\ pc \in Collectors
    /\ proc = NoProc
    /\ CommandOf(pc) \in installed
    /\ proc' = [collector |-> pc, timeout |-> TimeoutOf(pc)]
    /\ calls' = Append(calls, pc)
    /\ UNCHANGED <<pc, path, platform, tee_dmesg, response, gpu_status, status, body,
                   aborted, environ, installed, unitVars>>

\* the executable is not installed: check_output raises FileNotFoundError
SpawnFails ==
    /\ pc \in Collectors
    /\ proc = NoProc
    /\ CommandOf(pc) \notin installed
    /\ calls' = Append(calls, pc)
    /\ Finish(pc, Failure("missing"))
    /\ UNCHANGED <<path, proc, status, body, environ, installed, unitVars>>

\* the child exits by itself: with status 0 and some output, with another status,
\* or with output that does not decode
ChildExit ==
    /\ proc # NoProc
    /\ \E o \in {Ok(out) : out \in HostOutputs(proc.collector)}
                \cup {Failure("failed"), Failure("undecodable")} :
          Finish(proc.collector, o)
    /\ proc' = NoProc
    /\ UNCHANGED <<path, calls, status, body, environ, installed, unitVars>>

\* the timeout of check_output passes: the child is killed, TimeoutExpired is raised
Expire ==
    /\ proc # NoProc
    /\ proc.timeout > 0
    /\ Finish(proc.collector, Failure("timeout"))
    /\ proc' = NoProc
    /\ UNCHANGED <<path, calls, status, body, environ, installed, unitVars>>

\* the end of the dict display: 'tee_dmesg': tee_dmesg, 'timestamp': datetime.now(...)
Timestamp ==
    /\ pc = "timestamp"
    /\ response' = Put(Put(response, "tee_dmesg", tee_dmesg), "timestamp", Now)
    /\ calls' = Append(calls, "datetime.now")
    /\ pc' = StageAfter("timestamp")
    /\ UNCHANGED <<path, proc, platform, tee_dmesg, gpu_status, status, body, aborted,
                   environ, installed, unitVars>>

\* the GPU fields are added and the response is sent; handle_attestation returns
\* (its locals keep the values of this request until the next request arrives)
Send ==
    /\ pc = "send"
    /\ status' = StatusOK
    /\ body' = WithGpuFields(response, gpu_status)
    /\ pc' = "idle"
    /\ UNCHANGED <<path, proc, calls, platform, tee_dmesg, response, gpu_status,
                   aborted, environ, installed, unitVars>>

HandlerInit ==
    /\ pc = "idle"
    /\ path = ""
    /\ proc = NoProc
    /\ calls = <<>>
    /\ platform = "Unknown"
    /\ tee_dmesg = <<>>
    /\ response = EmptyDict
    /\ gpu_status = gpu_result0
    /\ status = 0
    /\ body = EmptyDict
    /\ aborted = FALSE
    /\ environ \in VmSizeEnvs
    /\ installed \in SUBSET {CommandOf(c) : c \in Collectors}

Init ==
    /\ HandlerInit
    /\ fn = "none"
    /\ arg = Failure("missing")
    /\ ret = Pending

Next == do_GET \/ Spawn \/ SpawnFails \/ ChildExit \/ Expire \/ Timestamp \/ Send

Spec == Init /\ [][Next]_vars

\* The handler thread runs when it can, and check_output kills a child that is still
\* running at its timeout; nothing makes a child exit by itself, or a request arrive.
FairSpec ==
    /\ Spec
    /\ WF_vars(Spawn \/ SpawnFails)
    /\ WF_vars(Expire)
    /\ WF_vars(Timestamp)
    /\ WF_vars(Send)

(***************************************************************************)
(* The collectors on their own: each applied once to an outcome of its     *)
(* child, drawn from every generated output and every failure.             *)
(***************************************************************************)
CollectorInit ==
    /\ HandlerInit
    /\ fn \in Collectors
    /\ arg \in {Ok(out) : out \in Outputs(fn)} \cup {Failure(k) : k \in FailureKinds}
    /\ ret = Pending

Apply(c, r) ==
    /\ fn = c
    /\ ret.exc = "pending"
    /\ ret' = r
    /\ UNCHANGED <<fn, arg, handlerVars>>

Call_get_tee_platform == Apply("get_tee_platform", get_tee_platform(arg))
Call_get_tee_dmesg_lines == Apply("get_tee_dmesg_lines", get_tee_dmesg_lines(arg))
Call_get_vm_size == Apply("get_vm_size", get_vm_size(arg, environ))
Call_get_azure_attestation == Apply("get_azure_attestation", get_azure_attestation(arg))
Call_get_tpm_pcr_values == Apply("get_tpm_pcr_values", get_tpm_pcr_values(arg))
Call_get_gpu_tee_status == Apply("get_gpu_tee_status", get_gpu_tee_status(arg))

CollectorNext ==
    \/ Call_get_tee_platform
    \/ Call_get_tee_dmesg_lines
    \/ Call_get_vm_size
    \/ Call_get_azure_attestation
    \/ Call_get_tpm_pcr_values
    \/ Call_get_gpu_tee_status

CollectorSpec == CollectorInit /\ [][CollectorNext]_vars

(***************************************************************************)
(* Properties of the request handler (Spec, FairSpec).                     *)
(***************************************************************************)
\* handle_attestation has sent its response for the request at `path`
Responded == pc = "idle" /\ path \in AttestationPaths /\ status # 0

SevenKeys == {"platform", "tee_verified", "vm_size", "azure_attestation",
              "tpm_pcr_sha256", "tee_dmesg", "timestamp"}
GpuKeys == {"gpu", "gpu_tee_verified", "nvidia_cc_mode"}

\* the one line get_tee_dmesg_lines returns when dmesg could not be read
IsSynthetic(lines) == Len(lines) = 1 /\ Prefix(lines[1], 1) = Lit_Error_reading_dmesg

\* number of times x occurs in the call log
Count(x) == Cardinality({i \in DOMAIN calls : calls[i] = x})

\* C1: whatever the collectors' children do (output, missing, timeout, other
\* failure), no exception leaves the handler, and a finished GET of /attestation
\* or /v1/attestation has status 200 and a body with all seven keys.
C1_NoCollectorFailureEscapes ==
    /\ ~aborted
    /\ (pc = "idle" /\ path \in AttestationPaths) =>
          (status = StatusOK /\ SevenKeys \subseteq DOMAIN body)

\* a 200 response in which every collector's slot holds its failure value
C1_Witness ==
    /\ Responded
    /\ path = "/v1/attestation"
    /\ status = StatusOK
    /\ body.platform = "Unknown"
    /\ IsSynthetic(body.tee_dmesg)
    /\ body.vm_size = Lit_Unknown
    /\ "error" \in DOMAIN body.azure_attestation
    /\ Lit_error \in DOMAIN body.tpm_pcr_sha256
    /\ "error" \in DOMAIN gpu_status

\* C2: in every response (sent or being built) tee_verified is true exactly when
\* platform is Intel-TDX or AMD-SEV-SNP, whatever the other collectors returned.
C2_TeeVerifiedIffPlatform ==
    /\ "tee_verified" \in DOMAIN response =>
          (response.tee_verified <=> response.platform \in {"Intel-TDX", "AMD-SEV-SNP"})
    /\ Responded =>
          (body.tee_verified <=> body.platform \in {"Intel-TDX", "AMD-SEV-SNP"})

\* a response that is verified on AMD although the TPM read and the document fetch failed
C2_Witness ==
    /\ Responded
    /\ body.platform = "AMD-SEV-SNP"
    /\ body.tee_verified
    /\ Lit_error \in DOMAIN body.tpm_pcr_sha256
    /\ "error" \in DOMAIN body.azure_attestation
    /\ ~gpu_status.gpu_detected

\* C5: a sent attestation response holds all three of gpu, gpu_tee_verified and
\* nvidia_cc_mode or none of them, and holds them exactly when get_gpu_tee_status
\* returned gpu_detected = True for that request.
C5_GpuFieldsIffDetected ==
    Responded =>
        /\ (GpuKeys \cap DOMAIN body) \in {{}, GpuKeys}
        /\ (GpuKeys \subseteq DOMAIN body) <=> gpu_status.gpu_detected

\* a response with the three GPU keys, and the model name nvidia-smi printed
C5_Witness ==
    /\ Responded
    /\ gpu_status.gpu_detected
    /\ GpuKeys \subseteq DOMAIN body
    /\ body.gpu = <<"H", "1", "0", "0">>
    /\ body.nvidia_cc_mode = "on"

\* C7: every child the handler waits for has a finite timeout, no collector is
\* called twice within a request, and every request that entered
\* handle_attestation gets its 200 response, provided a child still running at
\* its timeout is stopped.
C7_EveryRequestAnswered ==
    /\ [](proc # NoProc => proc.timeout > 0)
    /\ [](\A c \in Collectors : Count(c) <= 1)
    /\ (pc # "idle") ~> (pc = "idle" /\ status = StatusOK)

\* a response sent after the TPM child was stopped at its timeout, all six called once
C7_Witness ==
    /\ Responded
    /\ \A c \in Collectors : Count(c) = 1
    /\ Lit_error \in DOMAIN body.tpm_pcr_sha256
    /\ body.tpm_pcr_sha256[Lit_error] = Lit_TPM_read_timeout

\* C8: platform and tee_dmesg of one response agree: a TEE platform comes with at
\* least one kernel line that matches a TEE keyword and without the synthetic
\* read-failure line, and the synthetic line comes with platform Unknown.
C8_KernelFieldsAgree ==
    Responded =>
        /\ body.platform \in {"Intel-TDX", "AMD-SEV-SNP"} =>
              /\ ~IsSynthetic(body.tee_dmesg)
              /\ \E i \in DOMAIN body.tee_dmesg : IsTeeLine(body.tee_dmesg[i])
        /\ IsSynthetic(body.tee_dmesg) => body.platform = "Unknown"

\* C9 as claimed: the timestamp is taken once, after all six collectors returned;
\* no collector is called after it.
C9_TimestampAfterAllCollectors ==
    /\ Count("datetime.now") <= 1
    /\ Responded => Count("datetime.now") = 1
    /\ \A i, j \in DOMAIN calls :
          (calls[i] = "datetime.now" /\ calls[j] \in Collectors) => j < i

\* C9 as amended: the timestamp is taken once per request, after the platform,
\* kernel-evidence, VM-size, attestation-document and TPM collectors returned and
\* before the response is sent; get_gpu_tee_status, and it alone, is called after.
C9_TimestampBeforeGpuOnly ==
    /\ Count("datetime.now") <= 1
    /\ Responded => (Count("datetime.now") = 1 /\ body.timestamp = Cardinality(Collectors) - 1)
    /\ \A i, j \in DOMAIN calls :
          (calls[i] = "datetime.now" /\ calls[j] \in Collectors \ {"get_gpu_tee_status"})
              => j < i
    /\ \A i, j \in DOMAIN calls :
          (calls[i] = "datetime.now" /\ calls[j] = "get_gpu_tee_status") => i < j
    /\ "timestamp" \in DOMAIN response =>
          /\ \A c \in Collectors \ {"get_gpu_tee_status"} : Count(c) = 1
          /\ proc # NoProc => proc.collector = "get_gpu_tee_status"

\* the timestamp is in the response while the GPU inspector's child is still running
C9_Witness ==
    /\ "timestamp" \in DOMAIN response
    /\ response.timestamp = Cardinality(Collectors) - 1
    /\ proc # NoProc
    /\ proc.collector = "get_gpu_tee_status"
    /\ Lit_error \notin DOMAIN response.tpm_pcr_sha256

(***************************************************************************)
(* Properties of the collectors on their own (CollectorSpec).              *)
(***************************************************************************)
\* collector c has been applied to arg and returned ret.val
Returned(c) == fn = c /\ ret.exc = "none"

\* C3: the platform is found by case-insensitive search, first match first:
\* "tdx" gives Intel-TDX, else "sev" gives AMD-SEV-SNP, else "Memory Encryption"
\* in any case gives AMD-SEV-SNP, else (or when dmesg failed) Unknown.
C3_PlatformCaseInsensitive ==
    Returned("get_tee_platform") =>
        ret.val = IF arg.kind # "ok" THEN "Unknown"
                  ELSE IF Contains(Lit_tdx, Lower(arg.out)) THEN "Intel-TDX"
                  ELSE IF Contains(Lit_sev, Lower(arg.out)) THEN "AMD-SEV-SNP"
                  ELSE IF Contains(Lower(Lit_Memory_Encryption), Lower(arg.out))
                       THEN "AMD-SEV-SNP"
                  ELSE "Unknown"

\* C4: what get_tpm_pcr_values returns has no "error" key, or has the "error" key
\* and nothing else.
C4_ErrorOrRegisters ==
    Returned("get_tpm_pcr_values") =>
        (Lit_error \notin DOMAIN ret.val \/ DOMAIN ret.val = {Lit_error})

\* the lines of the TPM tool's output that hold a colon and "0x"
RegisterLines ==
    {l \in {Split(arg.out, "\n")[i] : i \in DOMAIN Split(arg.out, "\n")} :
        Contains(Lit_colon, l) /\ Contains(Lit_0x, l)}

\* the text of l before its first colon, and the text after it, trimmed
LabelOf(l) == Strip(SubSeq(l, 1, Find(l, ":") - 1))
ValueOf(l) == Strip(SubSeq(l, Find(l, ":") + 1, Len(l)))

\* C10: when the TPM tool succeeds, the mapping has an entry for each line with a
\* colon and "0x" and for no other line; the key is the trimmed text before the
\* line's first colon, the value the trimmed text after that first colon.
C10_EntryPerRegisterLine ==
    (Returned("get_tpm_pcr_values") /\ arg.kind = "ok") =>
        /\ DOMAIN ret.val = {LabelOf(l) : l \in RegisterLines}
        /\ \A l \in RegisterLines : ret.val[LabelOf(l)] = ValueOf(l)

\* C6: a GPU result that reports a failure (the tool did not run to a normal end,
\* or an error string is recorded) has detected = false, verified = false and
\* mode "unknown"; with the tool missing there is no error string and no model.
C6_FailureMeansNotDetected ==
    Returned("get_gpu_tee_status") =>
        /\ (arg.kind # "ok" \/ "error" \in DOMAIN ret.val) =>
              /\ ~ret.val.gpu_detected
              /\ ~ret.val.gpu_tee_verified
              /\ ret.val.nvidia_cc_mode = "unknown"
        /\ arg.kind = "missing" => DOMAIN ret.val \cap {"error", "gpu_model"} = {}

=============================================================================
